---------------------------- MODULE Spec2Model ----------------------------
(***************************************************************************)
(* A state-machine model of the generic algorithms of the library:         *)
(*   searching::binary_search, searching::equal_range,                     *)
(*   sorting::bubble_sort, sorting::merge_sort (with detail::merge),       *)
(*   dynamic_programming::fibonacci,                                       *)
(*   searching::linear_search, searching::linear_search_if,                *)
(*   graph::bfs_iterative, graph::bfs_complete, graph::dfs_recursive,      *)
(*   graph::dfs_iterative, graph::dfs_complete.                            *)
(* One call is one behaviour: Init is the state at function entry with the *)
(* arguments drawn from bounded sets, and every action is one step of the  *)
(* function's body (one loop iteration, one loop exit, one call/return).   *)
(* An iterator is modelled by its offset from the beginning of the range:  *)
(* offset 0 is begin(), offset Len(range) is end(), and dereferencing the  *)
(* offset p reads element p + 1 of the TLA+ sequence.                      *)
(***************************************************************************)
EXTENDS Integers, Sequences, FiniteSets, TLC

VARIABLES
  op,        \* the function being called
  pc,        \* the position of the call inside the function's body
  comp,      \* the comparison argument: "less" (std::less) or "greater"
  \* ---- searching: binary_search and equal_range
  data,      \* the caller's range [begin, end), never modified
  value,     \* the value searched for
  first,     \* binary_search's parameter `first` (modified by the loop)
  last,      \* binary_search's parameter `last` (modified by the loop)
  lower,     \* equal_range's local `lower`
  upper,     \* equal_range's local `upper`
  lower2,    \* equal_range's local `lower2` (NoPos before its declaration)
  upper2,    \* equal_range's local `upper2` (NoPos before its declaration)
  ret,       \* the returned iterator(s): <<>> before the return
  \* ---- sorting: bubble_sort, merge_sort and detail::merge
  arr,       \* the caller's range [begin, end), sorted in place
  input,     \* the contents of the range when the call was made
  end,       \* bubble_sort's local `end`
  current,   \* bubble_sort's local `current`
  next,      \* bubble_sort's local `next`
  swapped,   \* bubble_sort's local `swapped`
  stack,     \* merge_sort's call stack: frames [first, last, at], top last
  temp,      \* detail::merge's local vector `temp`
  left,      \* detail::merge's local `left`
  right,     \* detail::merge's local `right`
  passes,    \* how many times bubble_sort's do-while body has been entered
  comparisons, \* how many times bubble_sort has evaluated comp
  swaps,     \* how many times bubble_sort has called std::iter_swap
  \* ---- dynamic_programming: fibonacci
  T,         \* the value type: "int" or the tests' struct "n"
  n,         \* the parameter `n`
  startValue,\* the parameter `startValue`
  nextValue, \* the parameter `nextValue`
  v0,        \* the local `v0`
  v1,        \* the local `v1`
  i,         \* the loop counter `i`
  result,    \* the returned value: <<>> before the return
  thrown,    \* the exception leaving the call: "none" while there is none
  adds,      \* how many times operator+ of T has been evaluated
  ub,        \* TRUE once a signed addition has overflowed (undefined behaviour)
  \* ---- searching: linear_search and linear_search_if
  it,        \* the loop iterator `it` (NoPos before its declaration)
  pred,      \* linear_search_if: the predicate passed ("none" otherwise)
  \* ---- graph: bfs_iterative, bfs_complete, dfs_recursive, dfs_iterative,
  \*      dfs_complete
  graph,     \* the caller's graph: adj_list, the neighbours of node u at u + 1
  start,     \* the parameter `start` (NoPos for the complete traversals)
  visited,   \* the local set `visited`
  queue,     \* the BFS local `queue`, front first
  dfs_stack, \* dfs_iterative's local `stack`, top last
  calls,     \* the activations of dfs_impl: frames [node, nbr, at], top last
  node,      \* the loop local `node` of the BFS / iterative DFS while loop
  nbr,       \* the position of the for loop over the neighbours of `node`
  root,      \* the position of the for loop over get_all_nodes()
  order,     \* the nodes passed to `visit`, in call order
  roots      \* the nodes a complete traversal started a traversal from

searchVars == <<data, value, first, last, lower, upper, lower2, upper2, ret>>

sortVars ==
  <<arr, input, end, current, next, swapped, stack, temp, left, right,
    passes, comparisons, swaps>>

bubbleCounters == <<passes, comparisons, swaps>>

fibVars == <<T, n, startValue, nextValue, v0, v1, i, result, thrown, adds, ub>>

graphVars ==
  <<graph, start, visited, queue, dfs_stack, calls, node, nbr, root, order, roots>>

linearVars == <<it, pred>>

notSearchVars == <<sortVars, fibVars, linearVars, graphVars>>

notSortVars == <<searchVars, fibVars, linearVars, graphVars>>

notFibVars == <<searchVars, sortVars, linearVars, graphVars>>

notGraphVars == <<comp, searchVars, sortVars, fibVars, linearVars>>

notLinearVars == <<comp, lower, upper, lower2, upper2, sortVars, fibVars, graphVars>>

vars == <<op, pc, comp, searchVars, sortVars, fibVars, linearVars, graphVars>>

(***************************************************************************)
(* Bounds of the model.                                                    *)
(***************************************************************************)
MaxLen == 5        \* longest enumerated search range
MaxKey == 3        \* enumerated search elements are 1 .. MaxKey
SortMaxLen == 5    \* longest enumerated range to sort
SortMaxKey == 3    \* enumerated sort keys are 1 .. SortMaxKey
MaxN == 12         \* largest enumerated index n of fibonacci with any seeds
MaxNeg == 3        \* the enumerated negative indexes are -MaxNeg .. -1
MaxSeed == 2       \* enumerated seeds are 0 .. MaxSeed
DefaultMaxN == 47  \* largest enumerated n of fibonacci(n) with the default seeds
MaxNodes == 3      \* enumerated graphs have 0 .. MaxNodes nodes
MaxEdges == 3      \* enumerated graphs are built by 0 .. MaxEdges add_edge calls

(***************************************************************************)
(* Helpers shared by the families.                                         *)
(***************************************************************************)
\* A local that is not yet in scope.
NoPos == 0 - 1

Comparators == {"less", "greater"}

\* The variables of a family that is not the one being called.
IdleSearch ==
  /\ data = <<>> /\ value = 0 /\ first = NoPos /\ last = NoPos
  /\ lower = NoPos /\ upper = NoPos /\ lower2 = NoPos /\ upper2 = NoPos
  /\ ret = <<>>

IdleSort ==
  /\ arr = <<>> /\ input = <<>> /\ end = NoPos /\ current = NoPos
  /\ next = NoPos /\ swapped = FALSE /\ stack = <<>> /\ temp = <<>>
  /\ left = NoPos /\ right = NoPos
  /\ passes = 0 /\ comparisons = 0 /\ swaps = 0

IdleFib ==
  /\ T = "int" /\ n = 0 /\ startValue = 0 /\ nextValue = 0 /\ v0 = 0
  /\ v1 = 0 /\ i = 0 /\ result = <<>> /\ thrown = "none" /\ adds = 0
  /\ ub = FALSE

IdleLinear == it = NoPos /\ pred = "none"

IdleGraph ==
  /\ graph = <<>> /\ start = NoPos /\ visited = {} /\ queue = <<>>
  /\ dfs_stack = <<>> /\ calls = <<>> /\ node = NoPos /\ nbr = NoPos
  /\ root = NoPos /\ order = <<>> /\ roots = <<>>

\* comp(a, b): std::less<> (the default) or std::greater<> (used by the tests).
Comp(c, a, b) == IF c = "less" THEN a < b ELSE a > b

\* *it for the iterator at offset p of range s.
Deref(s, p) == s[p + 1]

\* All sequences over S of length 0 .. n.
SeqsUpTo(S, len) == UNION {[1..k -> S] : k \in 0..len}

(***************************************************************************)
(* searching::binary_search and searching::equal_range                     *)
(***************************************************************************)
\* The ranges of the repository's tests and documentation examples.
SearchTestRanges == {<<1, 3, 5, 7, 9>>, <<1, 3, 5, 5, 5, 7, 9>>}
SearchTestValues == {5, 10}

SearchInputs ==
  {<<s, v>> : s \in SeqsUpTo(1..MaxKey, MaxLen), v \in 0..(MaxKey + 1)}
    \cup (SearchTestRanges \X SearchTestValues)

InitSearch ==
  /\ op \in {"binary_search", "equal_range"}
  /\ comp \in Comparators
  /\ \E in \in SearchInputs : data = in[1] /\ value = in[2]
  /\ first = 0
  /\ last = Len(data)
  /\ lower = IF op = "equal_range" THEN first ELSE NoPos
  /\ upper = IF op = "equal_range" THEN last ELSE NoPos
  /\ lower2 = NoPos
  /\ upper2 = NoPos
  /\ ret = <<>>
  /\ pc = IF op = "binary_search" THEN "bs_loop" ELSE "er_lower_loop"
  /\ IdleSort
  /\ IdleFib
  /\ IdleLinear
  /\ IdleGraph

\* mid = first + (last - first) / 2
Mid(f, l) == f + ((l - f) \div 2)

\* BinarySearchIter searching the right half from mid instead of mid + 1.
BinarySearchIterNoAdvance ==
  /\ op = "binary_search" /\ pc = "bs_loop"
  /\ first < last
  /\ LET mid == Mid(first, last) IN
       IF Comp(comp, Deref(data, mid), value)
         THEN /\ first' = mid
              /\ UNCHANGED <<last, ret, pc>>
         ELSE IF Comp(comp, value, Deref(data, mid))
           THEN /\ last' = mid
                /\ UNCHANGED <<first, ret, pc>>
           ELSE /\ ret' = <<mid>>
                /\ pc' = "done"
                /\ UNCHANGED <<first, last>>
  /\ UNCHANGED <<op, comp, data, value, lower, upper, lower2, upper2>>
  /\ UNCHANGED notSearchVars

\* One iteration of binary_search's while loop (lines 63-76).
BinarySearchIterSwapped ==
  /\ op = "binary_search" /\ pc = "bs_loop"
  /\ first < last
  /\ LET mid == Mid(first, last) IN
       IF Comp(comp, Deref(data, mid), value)
         THEN /\ last' = mid
              /\ UNCHANGED <<first, ret, pc>>
         ELSE IF Comp(comp, value, Deref(data, mid))
           THEN /\ first' = mid + 1
                /\ UNCHANGED <<last, ret, pc>>
           ELSE /\ ret' = <<mid>>
                /\ pc' = "done"
                /\ UNCHANGED <<first, last>>
  /\ UNCHANGED <<op, comp, data, value, lower, upper, lower2, upper2>>
  /\ UNCHANGED notSearchVars

BinarySearchIter ==
  /\ op = "binary_search" /\ pc = "bs_loop"
  /\ first < last
  /\ LET mid == Mid(first, last) IN
       IF Comp(comp, Deref(data, mid), value)
         THEN /\ first' = mid + 1
              /\ UNCHANGED <<last, ret, pc>>
         ELSE IF Comp(comp, value, Deref(data, mid))
           THEN /\ last' = mid
                /\ UNCHANGED <<first, ret, pc>>
           ELSE /\ ret' = <<mid>>
                /\ pc' = "done"
                /\ UNCHANGED <<first, last>>
  /\ UNCHANGED <<op, comp, data, value, lower, upper, lower2, upper2>>
  /\ UNCHANGED notSearchVars

\* The loop condition fails: `return last` (line 78), the current `last`.
BinarySearchNotFound ==
  /\ op = "binary_search" /\ pc = "bs_loop"
  /\ ~(first < last)
  /\ ret' = <<last>>
  /\ pc' = "done"
  /\ UNCHANGED <<op, comp, data, value, first, last, lower, upper, lower2, upper2>>
  /\ UNCHANGED notSearchVars

\* One iteration of equal_range's lower-bound loop (lines 131-138).
EqualRangeLowerIterStrict ==
  /\ op = "equal_range" /\ pc = "er_lower_loop"
  /\ lower < upper
  /\ LET mid == Mid(lower, upper) IN
       IF ~Comp(comp, value, Deref(data, mid))
         THEN lower' = mid + 1 /\ UNCHANGED upper
         ELSE upper' = mid /\ UNCHANGED lower
  /\ UNCHANGED <<op, pc, comp, data, value, first, last, lower2, upper2, ret>>
  /\ UNCHANGED notSearchVars

EqualRangeLowerIter ==
  /\ op = "equal_range" /\ pc = "er_lower_loop"
  /\ lower < upper
  /\ LET mid == Mid(lower, upper) IN
       IF Comp(comp, Deref(data, mid), value)
         THEN lower' = mid + 1 /\ UNCHANGED upper
         ELSE upper' = mid /\ UNCHANGED lower
  /\ UNCHANGED <<op, pc, comp, data, value, first, last, lower2, upper2, ret>>
  /\ UNCHANGED notSearchVars

\* The lower-bound loop ends; lower2 and upper2 are declared (lines 141-142).
EqualRangeLowerExit ==
  /\ op = "equal_range" /\ pc = "er_lower_loop"
  /\ ~(lower < upper)
  /\ lower2' = first
  /\ upper2' = last
  /\ pc' = "er_upper_loop"
  /\ UNCHANGED <<op, comp, data, value, first, last, lower, upper, ret>>
  /\ UNCHANGED notSearchVars

\* One iteration of equal_range's upper-bound loop (lines 143-150).
EqualRangeUpperIter ==
  /\ op = "equal_range" /\ pc = "er_upper_loop"
  /\ lower2 < upper2
  /\ LET mid == Mid(lower2, upper2) IN
       IF Comp(comp, value, Deref(data, mid))
         THEN upper2' = mid /\ UNCHANGED lower2
         ELSE lower2' = mid + 1 /\ UNCHANGED upper2
  /\ UNCHANGED <<op, pc, comp, data, value, first, last, lower, upper, ret>>
  /\ UNCHANGED notSearchVars

\* return {lower, upper2} (line 152).
EqualRangeReturn ==
  /\ op = "equal_range" /\ pc = "er_upper_loop"
  /\ ~(lower2 < upper2)
  /\ ret' = <<lower, upper2>>
  /\ pc' = "done"
  /\ UNCHANGED <<op, comp, data, value, first, last, lower, upper, lower2, upper2>>
  /\ UNCHANGED notSearchVars

NextSearch ==
  \/ BinarySearchIter
  \/ BinarySearchNotFound
  \/ EqualRangeLowerIter
  \/ EqualRangeLowerExit
  \/ EqualRangeUpperIter
  \/ EqualRangeReturn

SpecSearch == InitSearch /\ [][NextSearch]_vars

\* The call runs as long as it has a step to take: nothing suspends it.
FairSpecSearch == SpecSearch /\ WF_vars(NextSearch)

(***************************************************************************)
(* sorting::bubble_sort, sorting::merge_sort and sorting::detail::merge    *)
(* An element is a pair <<key, tag>>: comp reads the key only, the tag     *)
(* tells elements with equal keys apart (it is the element's position in   *)
(* the range when the call was made).                                      *)
(***************************************************************************)
Key(e) == e[1]

Tag(e) == e[2]

\* comp(a, b) on elements: the comparison of the keys.
CompElem(c, a, b) == Comp(c, Key(a), Key(b))

\* The range holding the keys of ks, each tagged with its position.
Tagged(ks) == [k \in 1..Len(ks) |-> <<ks[k], k>>]

\* The vector of the repository's sorting tests.
SortTestKeys == <<5, 2, 9, 1, 5, 6>>

SortInputs ==
  {Tagged(ks) : ks \in SeqsUpTo(1..SortMaxKey, SortMaxLen)} \cup {Tagged(SortTestKeys)}

\* A frame of merge_sort(first, last, comp); `at` is where the call stands.
Frame(f, l, at) == [first |-> f, last |-> l, at |-> at]

InitSort ==
  /\ op \in {"bubble_sort", "merge_sort"}
  /\ comp \in Comparators
  /\ arr \in SortInputs
  /\ input = arr
  /\ end = NoPos /\ current = NoPos /\ next = NoPos /\ swapped = FALSE
  /\ stack = IF op = "merge_sort" THEN <<Frame(0, Len(arr), "entry")>> ELSE <<>>
  /\ temp = <<>> /\ left = NoPos /\ right = NoPos
  /\ passes = 0 /\ comparisons = 0 /\ swaps = 0
  /\ pc = IF op = "bubble_sort" THEN "bubble_entry" ELSE "merge_sort"
  /\ IdleSearch
  /\ IdleFib
  /\ IdleLinear
  /\ IdleGraph

\* std::iter_swap(p, q) on the range s.
IterSwap(s, p, q) ==
  [s EXCEPT ![p + 1] = Deref(s, q), ![q + 1] = Deref(s, p)]

\* if (first == last) return;  (line 60)
BubbleSortEmpty ==
  /\ op = "bubble_sort" /\ pc = "bubble_entry"
  /\ Len(arr) = 0
  /\ pc' = "done"
  /\ UNCHANGED <<op, comp, sortVars, notSortVars>>

\* auto end = last;  (lines 62-63), then the do-while body is entered.
BubbleSortBegin ==
  /\ op = "bubble_sort" /\ pc = "bubble_entry"
  /\ Len(arr) # 0
  /\ end' = Len(arr)
  /\ pc' = "bubble_pass"
  /\ UNCHANGED <<op, comp, arr, input, current, next, swapped, stack, temp, left, right>>
  /\ UNCHANGED bubbleCounters
  /\ UNCHANGED notSortVars

\* The head of a pass (lines 66-68).
BubblePassBegin ==
  /\ op = "bubble_sort" /\ pc = "bubble_pass"
  /\ swapped' = FALSE
  /\ current' = 0
  /\ next' = 1
  /\ pc' = "bubble_inner"
  /\ UNCHANGED <<op, comp, arr, input, end, stack, temp, left, right>>
  /\ passes' = passes + 1
  /\ UNCHANGED <<comparisons, swaps>>
  /\ UNCHANGED notSortVars

\* One iteration of the inner while loop (lines 70-77).
BubbleInnerIterNotStrict ==
  /\ op = "bubble_sort" /\ pc = "bubble_inner"
  /\ next # end
  /\ IF ~CompElem(comp, Deref(arr, current), Deref(arr, next))
       THEN /\ arr' = IterSwap(arr, current, next)
            /\ swapped' = TRUE
            /\ swaps' = swaps + 1
       ELSE UNCHANGED <<arr, swapped, swaps>>
  /\ current' = next
  /\ next' = next + 1
  /\ UNCHANGED <<op, pc, comp, input, end, stack, temp, left, right>>
  /\ comparisons' = comparisons + 1
  /\ UNCHANGED passes
  /\ UNCHANGED notSortVars

BubbleInnerIterNoSwap ==
  /\ op = "bubble_sort" /\ pc = "bubble_inner"
  /\ next # end
  /\ IF CompElem(comp, Deref(arr, next), Deref(arr, current))
       THEN /\ arr' = [arr EXCEPT ![current + 1] = Deref(arr, next)]
            /\ swapped' = TRUE
            /\ swaps' = swaps + 1
       ELSE UNCHANGED <<arr, swapped, swaps>>
  /\ current' = next
  /\ next' = next + 1
  /\ UNCHANGED <<op, pc, comp, input, end, stack, temp, left, right>>
  /\ comparisons' = comparisons + 1
  /\ UNCHANGED passes
  /\ UNCHANGED notSortVars

BubbleInnerIter ==
  /\ op = "bubble_sort" /\ pc = "bubble_inner"
  /\ next # end
  /\ IF CompElem(comp, Deref(arr, next), Deref(arr, current))
       THEN /\ arr' = IterSwap(arr, current, next)
            /\ swapped' = TRUE
            /\ swaps' = swaps + 1
       ELSE UNCHANGED <<arr, swapped, swaps>>
  /\ current' = next
  /\ next' = next + 1
  /\ UNCHANGED <<op, pc, comp, input, end, stack, temp, left, right>>
  /\ comparisons' = comparisons + 1
  /\ UNCHANGED passes
  /\ UNCHANGED notSortVars

\* BubblePassEnd without --end.
BubblePassEndNoShrink ==
  /\ op = "bubble_sort" /\ pc = "bubble_inner"
  /\ next = end
  /\ end' = end
  /\ pc' = IF swapped /\ end' # 0 THEN "bubble_pass" ELSE "done"
  /\ UNCHANGED <<op, comp, arr, input, current, next, swapped, stack, temp, left, right>>
  /\ UNCHANGED bubbleCounters
  /\ UNCHANGED notSortVars

\* BubblePassEnd with the loop condition `end != first` alone.
BubblePassEndNoEarlyStop ==
  /\ op = "bubble_sort" /\ pc = "bubble_inner"
  /\ next = end
  /\ end' = end - 1
  /\ pc' = IF end' # 0 THEN "bubble_pass" ELSE "done"
  /\ UNCHANGED <<op, comp, arr, input, current, next, swapped, stack, temp, left, right>>
  /\ UNCHANGED bubbleCounters
  /\ UNCHANGED notSortVars

\* The inner loop ends: --end; while (swapped && end != first)  (lines 78-79).
BubblePassEnd ==
  /\ op = "bubble_sort" /\ pc = "bubble_inner"
  /\ next = end
  /\ end' = end - 1
  /\ pc' = IF swapped /\ end' # 0 THEN "bubble_pass" ELSE "done"
  /\ UNCHANGED <<op, comp, arr, input, current, next, swapped, stack, temp, left, right>>
  /\ UNCHANGED bubbleCounters
  /\ UNCHANGED notSortVars

\* The frame on top of merge_sort's call stack.
Top == stack[Len(stack)]

\* The stack with its top frame at position `at`.
SetTop(at) == [stack EXCEPT ![Len(stack)].at = at]

\* The stack after the top frame returns.
Pop == SubSeq(stack, 1, Len(stack) - 1)

\* auto mid = std::next(first, distance / 2);  (lines 114, 117)
MergeSortMid(f, l) == f + ((l - f) \div 2)

\* if (distance <= 1) return;  (lines 114-115)
MergeSortBase ==
  /\ op = "merge_sort" /\ pc = "merge_sort"
  /\ Top.at = "entry"
  /\ Top.last - Top.first <= 1
  /\ stack' = Pop
  /\ pc' = IF Len(stack) = 1 THEN "done" ELSE pc
  /\ UNCHANGED <<op, comp, arr, input, end, current, next, swapped, temp, left, right>>
  /\ UNCHANGED bubbleCounters
  /\ UNCHANGED notSortVars

\* merge_sort(first, mid, comp);  (line 120)
MergeSortCallLeft ==
  /\ op = "merge_sort" /\ pc = "merge_sort"
  /\ Top.at = "entry"
  /\ Top.last - Top.first > 1
  /\ stack' = Append(SetTop("left"),
                     Frame(Top.first, MergeSortMid(Top.first, Top.last), "entry"))
  /\ UNCHANGED <<op, pc, comp, arr, input, end, current, next, swapped, temp, left, right>>
  /\ UNCHANGED bubbleCounters
  /\ UNCHANGED notSortVars

\* The left call has returned: merge_sort(mid, last, comp);  (line 121)
MergeSortCallRight ==
  /\ op = "merge_sort" /\ pc = "merge_sort"
  /\ Top.at = "left"
  /\ stack' = Append(SetTop("right"),
                     Frame(MergeSortMid(Top.first, Top.last), Top.last, "entry"))
  /\ UNCHANGED <<op, pc, comp, arr, input, end, current, next, swapped, temp, left, right>>
  /\ UNCHANGED bubbleCounters
  /\ UNCHANGED notSortVars

\* The right call has returned: detail::merge(first, mid, last, comp) is
\* entered (line 124; merge lines 37-41).
MergeCall ==
  /\ op = "merge_sort" /\ pc = "merge_sort"
  /\ Top.at = "right"
  /\ stack' = SetTop("merge")
  /\ temp' = <<>>
  /\ left' = Top.first
  /\ right' = MergeSortMid(Top.first, Top.last)
  /\ UNCHANGED <<op, pc, comp, arr, input, end, current, next, swapped>>
  /\ UNCHANGED bubbleCounters
  /\ UNCHANGED notSortVars

\* One iteration of merge's first loop (lines 44-52).
MergeTakeAlwaysRight ==
  /\ op = "merge_sort" /\ pc = "merge_sort"
  /\ Top.at = "merge"
  /\ left # MergeSortMid(Top.first, Top.last) /\ right # Top.last
  /\ temp' = Append(temp, Deref(arr, right))
  /\ right' = right + 1
  /\ UNCHANGED left
  /\ UNCHANGED <<op, pc, comp, arr, input, end, current, next, swapped, stack>>
  /\ UNCHANGED bubbleCounters
  /\ UNCHANGED notSortVars

MergeTake ==
  /\ op = "merge_sort" /\ pc = "merge_sort"
  /\ Top.at = "merge"
  /\ left # MergeSortMid(Top.first, Top.last) /\ right # Top.last
  /\ IF CompElem(comp, Deref(arr, left), Deref(arr, right))
       THEN /\ temp' = Append(temp, Deref(arr, left))
            /\ left' = left + 1
            /\ UNCHANGED right
       ELSE /\ temp' = Append(temp, Deref(arr, right))
            /\ right' = right + 1
            /\ UNCHANGED left
  /\ UNCHANGED <<op, pc, comp, arr, input, end, current, next, swapped, stack>>
  /\ UNCHANGED bubbleCounters
  /\ UNCHANGED notSortVars

\* One iteration of merge's second loop (lines 55-58); the first loop has
\* ended, and its condition stays false once it is false.
MergeCopyLeft ==
  /\ op = "merge_sort" /\ pc = "merge_sort"
  /\ Top.at = "merge"
  /\ ~(left # MergeSortMid(Top.first, Top.last) /\ right # Top.last)
  /\ left # MergeSortMid(Top.first, Top.last)
  /\ temp' = Append(temp, Deref(arr, left))
  /\ left' = left + 1
  /\ UNCHANGED <<op, pc, comp, arr, input, end, current, next, swapped, stack, right>>
  /\ UNCHANGED bubbleCounters
  /\ UNCHANGED notSortVars

\* One iteration of merge's third loop (lines 61-64); the second loop has
\* ended.
MergeCopyRight ==
  /\ op = "merge_sort" /\ pc = "merge_sort"
  /\ Top.at = "merge"
  /\ left = MergeSortMid(Top.first, Top.last)
  /\ right # Top.last
  /\ temp' = Append(temp, Deref(arr, right))
  /\ right' = right + 1
  /\ UNCHANGED <<op, pc, comp, arr, input, end, current, next, swapped, stack, left>>
  /\ UNCHANGED bubbleCounters
  /\ UNCHANGED notSortVars

\* std::copy(temp.begin(), temp.end(), first) on the range s  (line 67).
CopyBack(s, f, tmp) ==
  [k \in 1..Len(s) |-> IF k > f /\ k <= f + Len(tmp) THEN tmp[k - f] ELSE s[k]]

\* The three loops have ended: the copy back, then merge and the merge_sort
\* call that made it return (lines 67-68 and 125).
MergeCopyBack ==
  /\ op = "merge_sort" /\ pc = "merge_sort"
  /\ Top.at = "merge"
  /\ left = MergeSortMid(Top.first, Top.last)
  /\ right = Top.last
  /\ arr' = CopyBack(arr, Top.first, temp)
  /\ stack' = Pop
  /\ pc' = IF Len(stack) = 1 THEN "done" ELSE pc
  /\ UNCHANGED <<op, comp, input, end, current, next, swapped, temp, left, right>>
  /\ UNCHANGED bubbleCounters
  /\ UNCHANGED notSortVars

NextSort ==
  \/ BubbleSortEmpty
  \/ BubbleSortBegin
  \/ BubblePassBegin
  \/ BubbleInnerIter
  \/ BubblePassEnd
  \/ MergeSortBase
  \/ MergeSortCallLeft
  \/ MergeSortCallRight
  \/ MergeCall
  \/ MergeTake
  \/ MergeCopyLeft
  \/ MergeCopyRight
  \/ MergeCopyBack

SpecSort == InitSort /\ [][NextSort]_vars

(***************************************************************************)
(* dynamic_programming::fibonacci                                          *)
(* The value type T is int (the default) or the struct `n` of the tests,   *)
(* whose operator+ returns n(2 * value + 2 * other.value).  Both compute   *)
(* in 32-bit signed int; an overflowing signed addition is undefined       *)
(* behaviour, modelled by the outcomes a build produces: the               *)
(* two's-complement result, or a trap that aborts the call.                *)
(***************************************************************************)
IntMax == 2147483647

IntMin == (0 - IntMax) - 1

\* a + b leaves the range of int.
Overflows(a, b) ==
  \/ (b > 0 /\ a > IntMax - b)
  \/ (b < 0 /\ a < IntMin - b)

\* a + b in 32-bit two's complement.
AddWrap(a, b) ==
  IF b > 0 /\ a > IntMax - b
    THEN ((a - IntMax) - 1) + ((b - IntMax) - 1)
    ELSE IF b < 0 /\ a < IntMin - b
      THEN ((a + IntMax) + 1) + ((b + IntMax) + 1)
      ELSE a + b

\* a + b of the value type t.
Add(t, a, b) ==
  IF t = "int" THEN AddWrap(a, b)
               ELSE AddWrap(AddWrap(a, a), AddWrap(b, b))

\* Evaluating a + b of the value type t overflows an int.
AddOverflows(t, a, b) ==
  IF t = "int" THEN Overflows(a, b)
               ELSE \/ Overflows(a, a)
                    \/ Overflows(b, b)
                    \/ Overflows(AddWrap(a, a), AddWrap(b, b))

\* The calls: any index with any seeds of either type, and fibonacci(n) with
\* the default seeds 0 and 1 of int.
FibInputs ==
  {<<t, k, s0, s1>> : t \in {"int", "n"}, k \in (0 - MaxNeg)..MaxN,
                      s0 \in 0..MaxSeed, s1 \in 0..MaxSeed}
    \cup {<<"int", k, 0, 1>> : k \in 0..DefaultMaxN}

InitFib ==
  /\ op = "fibonacci"
  /\ comp = "less"
  /\ \E in \in FibInputs :
       T = in[1] /\ n = in[2] /\ startValue = in[3] /\ nextValue = in[4]
  /\ v0 = 0 /\ v1 = 0 /\ i = 0
  /\ result = <<>>
  /\ thrown = "none"
  /\ adds = 0
  /\ ub = FALSE
  /\ pc = "fib_entry"
  /\ IdleSearch
  /\ IdleSort
  /\ IdleLinear
  /\ IdleGraph

\* if (n < 0) throw std::invalid_argument(...);  (line 45)
FibThrowOffByOne ==
  /\ op = "fibonacci" /\ pc = "fib_entry"
  /\ n <= 0
  /\ thrown' = "invalid_argument"
  /\ pc' = "thrown"
  /\ UNCHANGED <<op, comp, T, n, startValue, nextValue, v0, v1, i, result, adds, ub>>
  /\ UNCHANGED notFibVars

FibThrow ==
  /\ op = "fibonacci" /\ pc = "fib_entry"
  /\ n < 0
  /\ thrown' = "invalid_argument"
  /\ pc' = "thrown"
  /\ UNCHANGED <<op, comp, T, n, startValue, nextValue, v0, v1, i, result, adds, ub>>
  /\ UNCHANGED notFibVars

\* if (n == 0) return startValue; if (n == 1) return nextValue;  (lines 47-48)
FibReturnSeed ==
  /\ op = "fibonacci" /\ pc = "fib_entry"
  /\ ~(n < 0)
  /\ n = 0 \/ n = 1
  /\ result' = IF n = 0 THEN <<startValue>> ELSE <<nextValue>>
  /\ pc' = "done"
  /\ UNCHANGED <<op, comp, T, n, startValue, nextValue, v0, v1, i, thrown, adds, ub>>
  /\ UNCHANGED notFibVars

\* T v0 = startValue; T v1 = nextValue; int i = 2;  (lines 50-52)
FibLoopBegin ==
  /\ op = "fibonacci" /\ pc = "fib_entry"
  /\ ~(n < 0) /\ n # 0 /\ n # 1
  /\ v0' = startValue
  /\ v1' = nextValue
  /\ i' = 2
  /\ pc' = "fib_loop"
  /\ UNCHANGED <<op, comp, T, n, startValue, nextValue, result, thrown, adds, ub>>
  /\ UNCHANGED notFibVars

\* ++i leaves the range of int (line 52): k is INT_MAX.
IncOverflows(k) == k = IntMax

\* FibLoopIter without temp: v0 takes the new v1.
FibLoopIterNoTemp ==
  /\ op = "fibonacci" /\ pc = "fib_loop"
  /\ i <= n
  /\ \E sum \in (IF AddOverflows(T, v0, v1) THEN {"wrap", "trap"} ELSE {"value"}) :
     \E inc \in (IF IncOverflows(i) THEN {"wrap", "trap", "exit"} ELSE {"value"}) :
       IF sum = "trap"
         THEN /\ pc' = "aborted"
              /\ ub' = TRUE
              /\ UNCHANGED <<v0, v1, i, adds, result>>
         ELSE /\ v1' = Add(T, v0, v1)
              /\ v0' = v1'
              /\ adds' = adds + 1
              /\ ub' = (ub \/ sum = "wrap" \/ inc # "value")
              /\ i' = IF inc = "value" THEN i + 1
                      ELSE IF inc = "wrap" THEN IntMin
                      ELSE i
              /\ pc' = IF inc = "trap" THEN "aborted"
                       ELSE IF inc = "exit" THEN "done"
                       ELSE pc
              /\ result' = IF inc = "exit" THEN <<v1'>> ELSE result
  /\ UNCHANGED <<op, comp, T, n, startValue, nextValue, thrown>>
  /\ UNCHANGED notFibVars

\* One iteration of the for loop (lines 52-56): the body and ++i.  An
\* overflow of v0 + v1 or of ++i is undefined: the sum wraps or the build
\* traps; the increment wraps (the loop goes on from INT_MIN), traps, or the
\* loop is left as if i had passed n and v1 is returned (line 57).
FibLoopIter ==
  /\ op = "fibonacci" /\ pc = "fib_loop"
  /\ i <= n
  /\ \E sum \in (IF AddOverflows(T, v0, v1) THEN {"wrap", "trap"} ELSE {"value"}) :
     \E inc \in (IF IncOverflows(i) THEN {"wrap", "trap", "exit"} ELSE {"value"}) :
       IF sum = "trap"
         THEN /\ pc' = "aborted"
              /\ ub' = TRUE
              /\ UNCHANGED <<v0, v1, i, adds, result>>
         ELSE /\ v1' = Add(T, v0, v1)
              /\ v0' = v1
              /\ adds' = adds + 1
              /\ ub' = (ub \/ sum = "wrap" \/ inc # "value")
              /\ i' = IF inc = "value" THEN i + 1
                      ELSE IF inc = "wrap" THEN IntMin
                      ELSE i
              /\ pc' = IF inc = "trap" THEN "aborted"
                       ELSE IF inc = "exit" THEN "done"
                       ELSE pc
              /\ result' = IF inc = "exit" THEN <<v1'>> ELSE result
  /\ UNCHANGED <<op, comp, T, n, startValue, nextValue, thrown>>
  /\ UNCHANGED notFibVars

\* The loop condition fails: return v1;  (line 57)
FibReturn ==
  /\ op = "fibonacci" /\ pc = "fib_loop"
  /\ ~(i <= n)
  /\ result' = <<v1>>
  /\ pc' = "done"
  /\ UNCHANGED <<op, comp, T, n, startValue, nextValue, v0, v1, i, thrown, adds, ub>>
  /\ UNCHANGED notFibVars

NextFib ==
  \/ FibThrow
  \/ FibReturnSeed
  \/ FibLoopBegin
  \/ FibLoopIter
  \/ FibReturn

SpecFib == InitFib /\ [][NextFib]_vars

(***************************************************************************)
(* searching::linear_search and linear_search_if.  The range is `data`,    *)
(* iterators are offsets into it; the predicates passed to                 *)
(* linear_search_if are the tests' `x > c` and its mirror `x < c`, the     *)
(* constant c being held in `value`.                                       *)
(***************************************************************************)
LinearPredicates == {"greater_than", "less_than"}

\* pred(x)
Pred(p, c, x) == IF p = "greater_than" THEN x > c ELSE x < c

\* The tests: {1,3,5,7,9} searched for 5 and 10, and for x > 6 and x > 10.
LinearTestRange == <<1, 3, 5, 7, 9>>

LinearInputs ==
  {<<o, "none", s, v>> : o \in {"linear_search"},
                         s \in SeqsUpTo(1..MaxKey, MaxLen), v \in 0..(MaxKey + 1)}
    \cup {<<o, q, s, v>> : o \in {"linear_search_if"}, q \in LinearPredicates,
                           s \in SeqsUpTo(1..MaxKey, MaxLen), v \in 0..(MaxKey + 1)}
    \cup {<<"linear_search", "none", LinearTestRange, v>> : v \in {5, 10}}
    \cup {<<"linear_search_if", "greater_than", LinearTestRange, v>> : v \in {6, 10}}

InitLinear ==
  /\ \E in \in LinearInputs :
       op = in[1] /\ pred = in[2] /\ data = in[3] /\ value = in[4]
  /\ first = 0
  /\ last = Len(data)
  /\ it = NoPos
  /\ ret = <<>>
  /\ pc = "linear_entry"
  /\ comp = "less"
  /\ lower = NoPos /\ upper = NoPos /\ lower2 = NoPos /\ upper2 = NoPos
  /\ IdleSort
  /\ IdleFib
  /\ IdleGraph

\* The test of the loop body: *it == value (line 64), pred(*it) (line 118).
LinearTest(x) == IF op = "linear_search" THEN x = value ELSE Pred(pred, value, x)

\* for (auto it = first; ...  (lines 63, 117)
LinearForBegin ==
  /\ op \in {"linear_search", "linear_search_if"} /\ pc = "linear_entry"
  /\ it' = first
  /\ pc' = "linear_for"
  /\ UNCHANGED <<op, pred, data, value, first, last, ret>>
  /\ UNCHANGED notLinearVars

\* LinearForFound returning the position after the match.
LinearForFoundNext ==
  /\ op \in {"linear_search", "linear_search_if"} /\ pc = "linear_for"
  /\ it # last
  /\ LinearTest(Deref(data, it))
  /\ ret' = <<it + 1>>
  /\ pc' = "done"
  /\ UNCHANGED <<op, pred, data, value, first, last, it>>
  /\ UNCHANGED notLinearVars

\* it != last and the test succeeds: return it  (lines 63-66, 117-120).
LinearForFound ==
  /\ op \in {"linear_search", "linear_search_if"} /\ pc = "linear_for"
  /\ it # last
  /\ LinearTest(Deref(data, it))
  /\ ret' = <<it>>
  /\ pc' = "done"
  /\ UNCHANGED <<op, pred, data, value, first, last, it>>
  /\ UNCHANGED notLinearVars

\* it != last and the test fails: ++it  (lines 63-67, 117-121).
LinearForStep ==
  /\ op \in {"linear_search", "linear_search_if"} /\ pc = "linear_for"
  /\ it # last
  /\ ~LinearTest(Deref(data, it))
  /\ it' = it + 1
  /\ UNCHANGED <<op, pc, pred, data, value, first, last, ret>>
  /\ UNCHANGED notLinearVars

\* it == last: return last  (lines 63, 69 and 117, 123).
LinearNotFound ==
  /\ op \in {"linear_search", "linear_search_if"} /\ pc = "linear_for"
  /\ it = last
  /\ ret' = <<last>>
  /\ pc' = "done"
  /\ UNCHANGED <<op, pred, data, value, first, last, it>>
  /\ UNCHANGED notLinearVars

NextLinear ==
  \/ LinearForBegin
  \/ LinearForFound
  \/ LinearForStep
  \/ LinearNotFound

SpecLinear == InitLinear /\ [][NextLinear]_vars

(***************************************************************************)
(* graph::bfs_iterative, bfs_complete, dfs_recursive, dfs_iterative and    *)
(* dfs_complete.  The graph is the adjacency-list graph of the tests: the  *)
(* nodes are 0 .. size - 1, get_all_nodes() lists them in that order and   *)
(* get_neighbors(u) is adj_list[u], in the order the edges were added.     *)
(* The visitor appends the node it is given to `order`.                    *)
(***************************************************************************)
GraphOps ==
  {"bfs_iterative", "bfs_complete", "dfs_recursive", "dfs_iterative", "dfs_complete"}

SingleSourceOps == {"bfs_iterative", "dfs_recursive", "dfs_iterative"}

\* graph(size): size empty adjacency lists.
EmptyGraph(size) == [u \in 1..size |-> <<>>]

\* add_edge(u, v): adj_list[u].push_back(v).
AddEdge(g, e) == [g EXCEPT ![e[1] + 1] = Append(g[e[1] + 1], e[2])]

\* The graph after the calls add_edge(es[1]), add_edge(es[2]), ...
RECURSIVE AddEdges(_, _)
AddEdges(g, es) ==
  IF es = <<>> THEN g ELSE AddEdges(AddEdge(g, Head(es)), Tail(es))

\* get_neighbors(u)
GetNeighbors(g, u) == g[u + 1]

\* get_all_nodes(): 0, 1, ..., size - 1.
GetAllNodes(g) == [k \in 1..Len(g) |-> k - 1]

\* The graphs of the repository's tests: g (5 nodes) and g2 (6 nodes).
TestGraph == AddEdges(EmptyGraph(5), <<<<0, 1>>, <<0, 2>>, <<1, 3>>, <<1, 4>>>>)

TestGraph2 == AddEdges(EmptyGraph(6), <<<<0, 1>>, <<0, 2>>, <<3, 4>>, <<4, 5>>>>)

\* Every graph of up to MaxNodes nodes built by up to MaxEdges add_edge calls
\* (self-loops and repeated edges included), and the tests' graphs.
Graphs ==
  UNION {{AddEdges(EmptyGraph(size), es) :
            es \in SeqsUpTo((0..(size - 1)) \X (0..(size - 1)), MaxEdges)} :
         size \in 0..MaxNodes}
    \cup {TestGraph, TestGraph2}

InitGraph ==
  /\ op \in GraphOps
  /\ graph \in Graphs
  /\ IF op \in SingleSourceOps
       THEN start \in 0..(Len(graph) - 1)
       ELSE start = NoPos
  /\ visited = {}
  /\ queue = <<>>
  /\ dfs_stack = <<>>
  /\ calls = <<>>
  /\ node = NoPos
  /\ nbr = NoPos
  /\ root = NoPos
  /\ order = <<>>
  /\ roots = <<>>
  /\ pc = "entry"
  /\ comp = "less"
  /\ IdleSearch
  /\ IdleSort
  /\ IdleFib
  /\ IdleLinear

\* ---- breadth-first search
\* bfs_iterative: queue.push_back(start); visited.insert(start);  (lines 35-39)
BfsIterativeBegin ==
  /\ op = "bfs_iterative" /\ pc = "entry"
  /\ queue' = Append(queue, start)
  /\ visited' = visited \cup {start}
  /\ pc' = "bfs_while"
  /\ UNCHANGED <<op, graph, start, dfs_stack, calls, node, nbr, root, order, roots>>
  /\ UNCHANGED notGraphVars

\* bfs_complete: the for loop over get_all_nodes() is entered (lines 69-71).
BfsCompleteBegin ==
  /\ op = "bfs_complete" /\ pc = "entry"
  /\ root' = 0
  /\ pc' = "complete_for"
  /\ UNCHANGED <<op, graph, start, visited, queue, dfs_stack, calls, node, nbr, order, roots>>
  /\ UNCHANGED notGraphVars

\* bfs_complete: if (visited.contains(start)) continue;  (line 72)
BfsCompleteSkip ==
  /\ op = "bfs_complete" /\ pc = "complete_for"
  /\ root < Len(GetAllNodes(graph))
  /\ Deref(GetAllNodes(graph), root) \in visited
  /\ root' = root + 1
  /\ UNCHANGED <<op, pc, graph, start, visited, queue, dfs_stack, calls, node, nbr, order, roots>>
  /\ UNCHANGED notGraphVars

\* BfsCompleteRoot without the test of line 72: a root is started whether or
\* not an earlier traversal reached it.
BfsCompleteRootUnchecked ==
  /\ op = "bfs_complete" /\ pc = "complete_for"
  /\ root < Len(GetAllNodes(graph))
  /\ queue' = <<Deref(GetAllNodes(graph), root)>>
  /\ visited' = visited \cup {Deref(GetAllNodes(graph), root)}
  /\ roots' = Append(roots, Deref(GetAllNodes(graph), root))
  /\ pc' = "bfs_while"
  /\ UNCHANGED <<op, graph, start, dfs_stack, calls, node, nbr, root, order>>
  /\ UNCHANGED notGraphVars

\* bfs_complete: a fresh queue seeded with the unvisited node (lines 74-76).
BfsCompleteRoot ==
  /\ op = "bfs_complete" /\ pc = "complete_for"
  /\ root < Len(GetAllNodes(graph))
  /\ Deref(GetAllNodes(graph), root) \notin visited
  /\ queue' = <<Deref(GetAllNodes(graph), root)>>
  /\ visited' = visited \cup {Deref(GetAllNodes(graph), root)}
  /\ roots' = Append(roots, Deref(GetAllNodes(graph), root))
  /\ pc' = "bfs_while"
  /\ UNCHANGED <<op, graph, start, dfs_stack, calls, node, nbr, root, order>>
  /\ UNCHANGED notGraphVars

\* bfs_complete: the for loop over get_all_nodes() ends (lines 71, 90-91).
BfsCompleteEnd ==
  /\ op = "bfs_complete" /\ pc = "complete_for"
  /\ root = Len(GetAllNodes(graph))
  /\ pc' = "done"
  /\ UNCHANGED <<op, graphVars, notGraphVars>>

\* BfsDequeue taking the node from the back of the queue instead of the front.
BfsDequeueBack ==
  /\ op \in {"bfs_iterative", "bfs_complete"} /\ pc = "bfs_while"
  /\ queue # <<>>
  /\ node' = queue[Len(queue)]
  /\ queue' = SubSeq(queue, 1, Len(queue) - 1)
  /\ order' = Append(order, queue[Len(queue)])
  /\ nbr' = 0
  /\ pc' = "bfs_for"
  /\ UNCHANGED <<op, graph, start, visited, dfs_stack, calls, root, roots>>
  /\ UNCHANGED notGraphVars

\* The head of a while iteration: node = queue.front(); queue.erase(begin);
\* visit(node);  (bfs_iterative lines 41-44, bfs_complete lines 78-81)
BfsDequeue ==
  /\ op \in {"bfs_iterative", "bfs_complete"} /\ pc = "bfs_while"
  /\ queue # <<>>
  /\ node' = Head(queue)
  /\ queue' = Tail(queue)
  /\ order' = Append(order, Head(queue))
  /\ nbr' = 0
  /\ pc' = "bfs_for"
  /\ UNCHANGED <<op, graph, start, visited, dfs_stack, calls, root, roots>>
  /\ UNCHANGED notGraphVars

\* BfsForIter without visited.insert(neighbor): the node is not marked when
\* it is enqueued.
BfsForIterNoMark ==
  /\ op \in {"bfs_iterative", "bfs_complete"} /\ pc = "bfs_for"
  /\ nbr < Len(GetNeighbors(graph, node))
  /\ LET neighbor == Deref(GetNeighbors(graph, node), nbr) IN
       IF neighbor \notin visited
         THEN /\ queue' = Append(queue, neighbor)
              /\ UNCHANGED visited
         ELSE UNCHANGED <<visited, queue>>
  /\ nbr' = nbr + 1
  /\ UNCHANGED <<op, pc, graph, start, dfs_stack, calls, node, root, order, roots>>
  /\ UNCHANGED notGraphVars

\* One iteration of the for loop over get_neighbors(node)
\* (bfs_iterative lines 46-51, bfs_complete lines 83-88).
BfsForIter ==
  /\ op \in {"bfs_iterative", "bfs_complete"} /\ pc = "bfs_for"
  /\ nbr < Len(GetNeighbors(graph, node))
  /\ LET neighbor == Deref(GetNeighbors(graph, node), nbr) IN
       IF neighbor \notin visited
         THEN /\ visited' = visited \cup {neighbor}
              /\ queue' = Append(queue, neighbor)
         ELSE UNCHANGED <<visited, queue>>
  /\ nbr' = nbr + 1
  /\ UNCHANGED <<op, pc, graph, start, dfs_stack, calls, node, root, order, roots>>
  /\ UNCHANGED notGraphVars

\* The for loop over the neighbours ends; back to the while condition.
BfsForEnd ==
  /\ op \in {"bfs_iterative", "bfs_complete"} /\ pc = "bfs_for"
  /\ nbr = Len(GetNeighbors(graph, node))
  /\ pc' = "bfs_while"
  /\ UNCHANGED <<op, graphVars, notGraphVars>>

\* while (!queue.empty()) fails: bfs_iterative returns (line 53); bfs_complete
\* goes on to the next node of get_all_nodes() (lines 89-90).
BfsWhileEnd ==
  /\ op \in {"bfs_iterative", "bfs_complete"} /\ pc = "bfs_while"
  /\ queue = <<>>
  /\ IF op = "bfs_iterative"
       THEN pc' = "done" /\ UNCHANGED root
       ELSE pc' = "complete_for" /\ root' = root + 1
  /\ UNCHANGED <<op, graph, start, visited, queue, dfs_stack, calls, node, nbr, order, roots>>
  /\ UNCHANGED notGraphVars

\* ---- iterative depth-first search
\* stack.push(start);  (lines 104-107)
DfsIterativeBegin ==
  /\ op = "dfs_iterative" /\ pc = "entry"
  /\ dfs_stack' = Append(dfs_stack, start)
  /\ pc' = "dfs_while"
  /\ UNCHANGED <<op, graph, start, visited, queue, calls, node, nbr, root, order, roots>>
  /\ UNCHANGED notGraphVars

\* DfsPopVisited without stack.pop(): the visited node stays on top.
DfsPopVisitedNoPop ==
  /\ op = "dfs_iterative" /\ pc = "dfs_while"
  /\ dfs_stack # <<>>
  /\ dfs_stack[Len(dfs_stack)] \in visited
  /\ node' = dfs_stack[Len(dfs_stack)]
  /\ UNCHANGED <<op, pc, graph, start, visited, queue, dfs_stack, calls, nbr, root, order, roots>>
  /\ UNCHANGED notGraphVars

\* node = stack.top(); stack.pop(); if (visited.contains(node)) continue;
\* (lines 109-113)
DfsPopVisited ==
  /\ op = "dfs_iterative" /\ pc = "dfs_while"
  /\ dfs_stack # <<>>
  /\ dfs_stack[Len(dfs_stack)] \in visited
  /\ node' = dfs_stack[Len(dfs_stack)]
  /\ dfs_stack' = SubSeq(dfs_stack, 1, Len(dfs_stack) - 1)
  /\ UNCHANGED <<op, pc, graph, start, visited, queue, calls, nbr, root, order, roots>>
  /\ UNCHANGED notGraphVars

\* DfsPopVisit without the test of line 113: a popped node is visited even
\* when it is already in the visited set.
DfsPopVisitNoCheck ==
  /\ op = "dfs_iterative" /\ pc = "dfs_while"
  /\ dfs_stack # <<>>
  /\ node' = dfs_stack[Len(dfs_stack)]
  /\ dfs_stack' = SubSeq(dfs_stack, 1, Len(dfs_stack) - 1)
  /\ visited' = visited \cup {node'}
  /\ order' = Append(order, node')
  /\ nbr' = Len(GetNeighbors(graph, node'))
  /\ pc' = "dfs_rfor"
  /\ UNCHANGED <<op, graph, start, queue, calls, root, roots>>
  /\ UNCHANGED notGraphVars

\* node = stack.top(); stack.pop(); visited.insert(node); visit(node); the
\* neighbours are copied and the reverse loop starts at rbegin (lines 109-123).
DfsPopVisit ==
  /\ op = "dfs_iterative" /\ pc = "dfs_while"
  /\ dfs_stack # <<>>
  /\ dfs_stack[Len(dfs_stack)] \notin visited
  /\ node' = dfs_stack[Len(dfs_stack)]
  /\ dfs_stack' = SubSeq(dfs_stack, 1, Len(dfs_stack) - 1)
  /\ visited' = visited \cup {node'}
  /\ order' = Append(order, node')
  /\ nbr' = Len(GetNeighbors(graph, node'))
  /\ pc' = "dfs_rfor"
  /\ UNCHANGED <<op, graph, start, queue, calls, root, roots>>
  /\ UNCHANGED notGraphVars

\* DfsRForIter walking neighbor_vec front to back instead of back to front.
DfsRForIterForward ==
  /\ op = "dfs_iterative" /\ pc = "dfs_rfor"
  /\ nbr > 0
  /\ LET neighbor == Deref(GetNeighbors(graph, node),
                           Len(GetNeighbors(graph, node)) - nbr) IN
       IF neighbor \notin visited
         THEN dfs_stack' = Append(dfs_stack, neighbor)
         ELSE UNCHANGED dfs_stack
  /\ nbr' = nbr - 1
  /\ UNCHANGED <<op, pc, graph, start, visited, queue, calls, node, root, order, roots>>
  /\ UNCHANGED notGraphVars

\* One iteration of the reverse loop over neighbor_vec (lines 123-127); nbr
\* is the number of neighbours not yet looked at, *it is the last of them.
DfsRForIter ==
  /\ op = "dfs_iterative" /\ pc = "dfs_rfor"
  /\ nbr > 0
  /\ LET neighbor == Deref(GetNeighbors(graph, node), nbr - 1) IN
       IF neighbor \notin visited
         THEN dfs_stack' = Append(dfs_stack, neighbor)
         ELSE UNCHANGED dfs_stack
  /\ nbr' = nbr - 1
  /\ UNCHANGED <<op, pc, graph, start, visited, queue, calls, node, root, order, roots>>
  /\ UNCHANGED notGraphVars

\* The reverse loop ends (it == rend); back to the while condition.
DfsRForEnd ==
  /\ op = "dfs_iterative" /\ pc = "dfs_rfor"
  /\ nbr = 0
  /\ pc' = "dfs_while"
  /\ UNCHANGED <<op, graphVars, notGraphVars>>

\* while (!stack.empty()) fails: dfs_iterative returns (lines 109, 129).
DfsWhileEnd ==
  /\ op = "dfs_iterative" /\ pc = "dfs_while"
  /\ dfs_stack = <<>>
  /\ pc' = "done"
  /\ UNCHANGED <<op, graphVars, notGraphVars>>

\* ---- recursive depth-first search: dfs_impl of dfs_recursive (lines 75-84)
\* and of dfs_complete (lines 148-157)
\* An activation of dfs_impl(node).
Call(u) == [node |-> u, nbr |-> 0, at |-> "entry"]

TopCall == calls[Len(calls)]

\* The activations after the top one returns.
PopCall == SubSeq(calls, 1, Len(calls) - 1)

\* Where the function stands when the outermost dfs_impl has returned:
\* dfs_recursive returns (line 87); dfs_complete goes on with its for loop.
AfterImpl == IF op = "dfs_recursive" THEN "done" ELSE "complete_for"

\* dfs_recursive: dfs_impl(start);  (line 86)
DfsRecursiveBegin ==
  /\ op = "dfs_recursive" /\ pc = "entry"
  /\ calls' = Append(calls, Call(start))
  /\ pc' = "dfs_impl"
  /\ UNCHANGED <<op, graph, start, visited, queue, dfs_stack, node, nbr, root, order, roots>>
  /\ UNCHANGED notGraphVars

\* dfs_impl: if (visited.contains(node)) return;  (lines 76, 149)
DfsImplReturnVisited ==
  /\ op \in {"dfs_recursive", "dfs_complete"} /\ pc = "dfs_impl"
  /\ TopCall.at = "entry"
  /\ TopCall.node \in visited
  /\ calls' = PopCall
  /\ IF Len(calls) = 1
       THEN /\ pc' = AfterImpl
            /\ root' = IF op = "dfs_complete" THEN root + 1 ELSE root
       ELSE UNCHANGED <<pc, root>>
  /\ UNCHANGED <<op, graph, start, visited, queue, dfs_stack, node, nbr, order, roots>>
  /\ UNCHANGED notGraphVars

\* dfs_impl: visited.insert(node); visit(node); the for loop starts
\* (lines 78-81, 151-154).
DfsImplVisit ==
  /\ op \in {"dfs_recursive", "dfs_complete"} /\ pc = "dfs_impl"
  /\ TopCall.at = "entry"
  /\ TopCall.node \notin visited
  /\ visited' = visited \cup {TopCall.node}
  /\ order' = Append(order, TopCall.node)
  /\ calls' = [calls EXCEPT ![Len(calls)].at = "for"]
  /\ UNCHANGED <<op, pc, graph, start, queue, dfs_stack, node, nbr, root, roots>>
  /\ UNCHANGED notGraphVars

\* dfs_impl: one iteration of the for loop, dfs_impl(neighbor)  (lines 81-83,
\* 154-156); the loop position of the caller moves on when the call is made.
DfsImplCall ==
  /\ op \in {"dfs_recursive", "dfs_complete"} /\ pc = "dfs_impl"
  /\ TopCall.at = "for"
  /\ TopCall.nbr < Len(GetNeighbors(graph, TopCall.node))
  /\ calls' = Append([calls EXCEPT ![Len(calls)].nbr = TopCall.nbr + 1],
                     Call(Deref(GetNeighbors(graph, TopCall.node), TopCall.nbr)))
  /\ UNCHANGED <<op, pc, graph, start, visited, queue, dfs_stack, node, nbr, root, order, roots>>
  /\ UNCHANGED notGraphVars

\* dfs_impl: the for loop ends and the activation returns (lines 84, 157).
DfsImplReturn ==
  /\ op \in {"dfs_recursive", "dfs_complete"} /\ pc = "dfs_impl"
  /\ TopCall.at = "for"
  /\ TopCall.nbr = Len(GetNeighbors(graph, TopCall.node))
  /\ calls' = PopCall
  /\ IF Len(calls) = 1
       THEN /\ pc' = AfterImpl
            /\ root' = IF op = "dfs_complete" THEN root + 1 ELSE root
       ELSE UNCHANGED <<pc, root>>
  /\ UNCHANGED <<op, graph, start, visited, queue, dfs_stack, node, nbr, order, roots>>
  /\ UNCHANGED notGraphVars

\* dfs_complete: the for loop over get_all_nodes() is entered (lines 145-159).
DfsCompleteBegin ==
  /\ op = "dfs_complete" /\ pc = "entry"
  /\ root' = 0
  /\ pc' = "complete_for"
  /\ UNCHANGED <<op, graph, start, visited, queue, dfs_stack, calls, node, nbr, order, roots>>
  /\ UNCHANGED notGraphVars

\* dfs_complete: if (!visited.contains(node)) is false  (line 160).
DfsCompleteSkip ==
  /\ op = "dfs_complete" /\ pc = "complete_for"
  /\ root < Len(GetAllNodes(graph))
  /\ Deref(GetAllNodes(graph), root) \in visited
  /\ root' = root + 1
  /\ UNCHANGED <<op, pc, graph, start, visited, queue, dfs_stack, calls, node, nbr, order, roots>>
  /\ UNCHANGED notGraphVars

\* DfsCompleteRoot with a visited set of its own for every root.
DfsCompleteRootFreshVisited ==
  /\ op = "dfs_complete" /\ pc = "complete_for"
  /\ root < Len(GetAllNodes(graph))
  /\ Deref(GetAllNodes(graph), root) \notin visited
  /\ calls' = Append(calls, Call(Deref(GetAllNodes(graph), root)))
  /\ roots' = Append(roots, Deref(GetAllNodes(graph), root))
  /\ visited' = {}
  /\ pc' = "dfs_impl"
  /\ UNCHANGED <<op, graph, start, queue, dfs_stack, node, nbr, root, order>>
  /\ UNCHANGED notGraphVars

\* dfs_complete: dfs_impl(node) on an unvisited node  (lines 160-161).
DfsCompleteRoot ==
  /\ op = "dfs_complete" /\ pc = "complete_for"
  /\ root < Len(GetAllNodes(graph))
  /\ Deref(GetAllNodes(graph), root) \notin visited
  /\ calls' = Append(calls, Call(Deref(GetAllNodes(graph), root)))
  /\ roots' = Append(roots, Deref(GetAllNodes(graph), root))
  /\ pc' = "dfs_impl"
  /\ UNCHANGED <<op, graph, start, visited, queue, dfs_stack, node, nbr, root, order>>
  /\ UNCHANGED notGraphVars

\* dfs_complete: the for loop over get_all_nodes() ends (lines 159, 163-164).
DfsCompleteEnd ==
  /\ op = "dfs_complete" /\ pc = "complete_for"
  /\ root = Len(GetAllNodes(graph))
  /\ pc' = "done"
  /\ UNCHANGED <<op, graphVars, notGraphVars>>

NextGraph ==
  \/ BfsIterativeBegin
  \/ BfsCompleteBegin
  \/ BfsCompleteSkip
  \/ BfsCompleteRoot
  \/ BfsCompleteEnd
  \/ BfsDequeue
  \/ BfsForIter
  \/ BfsForEnd
  \/ BfsWhileEnd
  \/ DfsIterativeBegin
  \/ DfsPopVisited
  \/ DfsPopVisit
  \/ DfsRForIter
  \/ DfsRForEnd
  \/ DfsWhileEnd
  \/ DfsRecursiveBegin
  \/ DfsImplReturnVisited
  \/ DfsImplVisit
  \/ DfsImplCall
  \/ DfsImplReturn
  \/ DfsCompleteBegin
  \/ DfsCompleteSkip
  \/ DfsCompleteRoot
  \/ DfsCompleteEnd

SpecGraph == InitGraph /\ [][NextGraph]_vars

\* The traversal is scheduled as long as it has a step to take: the calls are
\* synchronous, nothing suspends them.
FairSpecGraph == SpecGraph /\ WF_vars(NextGraph)

(***************************************************************************)
(* The library: a call of any of its functions.                            *)
(***************************************************************************)
Init == InitSearch \/ InitSort \/ InitFib \/ InitLinear \/ InitGraph

Next == NextSearch \/ NextSort \/ NextFib \/ NextLinear \/ NextGraph

Spec == Init /\ [][Next]_vars

(***************************************************************************)
(* Vocabulary of the properties.                                           *)
(***************************************************************************)
\* s is ordered under c: no adjacent pair with comp(s[i+1], s[i]).
IsSortedBy(s, c) == \A k \in 1..(Len(s) - 1) : ~Comp(c, s[k + 1], s[k])

\* a and b are equivalent under c: neither comp(a, b) nor comp(b, a).
Equiv(c, a, b) == ~Comp(c, a, b) /\ ~Comp(c, b, a)

\* The offsets of the elements of s equivalent to v.
Matches(s, v, c) == {p \in 0..(Len(s) - 1) : Equiv(c, Deref(s, p), v)}

BinarySearchDone == op = "binary_search" /\ pc = "done"

EqualRangeDone == op = "equal_range" /\ pc = "done"

\* The least element of a non-empty set of integers.
MinOf(S) == CHOOSE x \in S : \A y \in S : x <= y

\* The first offset whose element is not less than v (end when there is none).
FirstNotLess(s, v, c) ==
  MinOf({p \in 0..Len(s) : p = Len(s) \/ ~Comp(c, Deref(s, p), v)})

\* The first offset whose element is greater than v (end when there is none).
FirstGreater(s, v, c) ==
  MinOf({p \in 0..Len(s) : p = Len(s) \/ Comp(c, v, Deref(s, p))})

\* s with v inserted before offset p.
InsertAt(s, p, v) == SubSeq(s, 1, p) \o <<v>> \o SubSeq(s, p + 1, Len(s))

(***************************************************************************)
(* Claims about searching.                                                 *)
(***************************************************************************)
\* C1 (as stated): on a range sorted under comp that holds no element
\* equivalent to the value, binary_search returns the end position the caller
\* passed in, wherever the absent value would fall.
C1_AbsentReturnsCallersLast ==
  (BinarySearchDone /\ IsSortedBy(data, comp) /\ Matches(data, value, comp) = {})
    => ret = <<Len(data)>>

\* C3: on a range sorted under comp that holds an element equivalent to the
\* value, binary_search returns a position p, begin <= p < end, whose element
\* is equivalent to the value.
C3_PresentIsFound ==
  (BinarySearchDone /\ IsSortedBy(data, comp) /\ Matches(data, value, comp) # {})
    => /\ Len(ret) = 1
       /\ 0 <= ret[1] /\ ret[1] < Len(data)
       /\ Equiv(comp, Deref(data, ret[1]), value)

\* C3 witness: a finished search of a sorted range of three or more elements
\* that holds the value at least twice, answered with one of the matches.
C3_Witness ==
  /\ BinarySearchDone
  /\ IsSortedBy(data, comp)
  /\ Len(data) >= 3
  /\ Cardinality(Matches(data, value, comp)) >= 2
  /\ Len(ret) = 1
  /\ ret[1] \in Matches(data, value, comp)

\* C8: on a range sorted under comp, equal_range returns (lo, hi) with lo the
\* first position whose element is not less than the value and hi the first
\* position whose element is greater; lo <= hi, hi - lo is the number of
\* equivalent elements (3 for 5 in [1,3,5,5,5,7,9]); when the value is absent
\* lo = hi is the insertion position that keeps the range ordered, the end
\* position when the value exceeds every element.
C8_EqualRangeBounds ==
  (EqualRangeDone /\ IsSortedBy(data, comp))
    => /\ Len(ret) = 2
       /\ LET lo == ret[1]
              hi == ret[2]
              m  == Matches(data, value, comp)
          IN  /\ lo = FirstNotLess(data, value, comp)
              /\ hi = FirstGreater(data, value, comp)
              /\ 0 <= lo /\ lo <= hi /\ hi <= Len(data)
              /\ hi - lo = Cardinality(m)
              /\ m = lo..(hi - 1)
              /\ (m = {}) =>
                   /\ lo = hi
                   /\ IsSortedBy(InsertAt(data, lo, value), comp)
                   /\ (\A p \in 0..(Len(data) - 1) : Comp(comp, Deref(data, p), value))
                        => lo = Len(data)
              /\ (data = <<1, 3, 5, 5, 5, 7, 9>> /\ value = 5 /\ comp = "less")
                   => hi - lo = 3

\* C8 witness: the documented example, 5 in [1,3,5,5,5,7,9], answered [2, 5).
C8_Witness ==
  /\ EqualRangeDone
  /\ data = <<1, 3, 5, 5, 5, 7, 9>> /\ value = 5 /\ comp = "less"
  /\ ret = <<2, 5>>

\* C8 witness of the absent case is part of the same run set: an absent value
\* between two elements of a sorted range, answered with an empty interval.
C8_WitnessAbsent ==
  /\ EqualRangeDone
  /\ IsSortedBy(data, comp)
  /\ Matches(data, value, comp) = {}
  /\ Len(ret) = 2 /\ ret[1] = ret[2] /\ 0 < ret[1] /\ ret[1] < Len(data)

(***************************************************************************)
(* Claims about sorting.                                                   *)
(***************************************************************************)
\* The range s of elements is ordered under c.
IsSortedElems(s, c) ==
  \A k \in 1..(Len(s) - 1) : ~CompElem(c, s[k + 1], s[k])

\* How many positions of s hold e.
Count(s, e) == Cardinality({k \in 1..Len(s) : s[k] = e})

\* s and t hold the same multiset of elements.
SameMultiset(s, t) ==
  /\ Len(s) = Len(t)
  /\ \A k \in 1..Len(s) : Count(s, s[k]) = Count(t, s[k])
  /\ \A k \in 1..Len(t) : Count(s, t[k]) = Count(t, t[k])

\* Elements of s equivalent under c stand in the order of their tags, that
\* is, in the order they had when the call was made.
StableOrder(s, c) ==
  \A j, k \in 1..Len(s) :
    (j < k /\ ~CompElem(c, s[j], s[k]) /\ ~CompElem(c, s[k], s[j]))
      => Tag(s[j]) < Tag(s[k])

\* The keys of the range s.
Keys(s) == [k \in 1..Len(s) |-> Key(s[k])]

\* s holds two elements equivalent under c.
HasTie(s, c) ==
  \E j, k \in 1..Len(s) :
    j < k /\ ~CompElem(c, s[j], s[k]) /\ ~CompElem(c, s[k], s[j])

BubbleSortDone == op = "bubble_sort" /\ pc = "done"

MergeSortDone == op = "merge_sort" /\ pc = "done"

\* C2 (as stated): merge_sort is stable: elements equivalent under comp leave
\* the sort in the order they had in the input.
C2_MergeSortStable == MergeSortDone => StableOrder(arr, comp)

\* C2, its clause on detail::merge: a step of the merging loop that finds the
\* fronts of the two halves equivalent takes the left-half element.
C2_MergeTieTakesLeft ==
  [][(/\ op = "merge_sort" /\ pc = "merge_sort" /\ stack # <<>>
      /\ Top.at = "merge"
      /\ left # MergeSortMid(Top.first, Top.last) /\ right # Top.last
      /\ ~CompElem(comp, Deref(arr, left), Deref(arr, right))
      /\ ~CompElem(comp, Deref(arr, right), Deref(arr, left)))
       => left' = left + 1]_vars

\* C4: after merge_sort the range is a permutation of the input and is
\* ordered under comp.
C4_MergeSortSorts ==
  MergeSortDone => (SameMultiset(arr, input) /\ IsSortedElems(arr, comp))

\* C4 witness: the test vector [5,2,9,1,5,6] sorted by merge_sort under
\* std::greater.
C4_Witness ==
  /\ MergeSortDone
  /\ comp = "greater"
  /\ input = Tagged(SortTestKeys)
  /\ Keys(arr) = <<9, 6, 5, 5, 2, 1>>

\* C5: after bubble_sort the range (of any length, 0 and 1 included) is a
\* permutation of the input and is ordered under comp.
C5_BubbleSortSorts ==
  BubbleSortDone => (SameMultiset(arr, input) /\ IsSortedElems(arr, comp))

\* C5 witness: the test vector [5,2,9,1,5,6] sorted by bubble_sort under
\* std::less.
C5_Witness ==
  /\ BubbleSortDone
  /\ comp = "less"
  /\ input = Tagged(SortTestKeys)
  /\ Keys(arr) = <<1, 2, 5, 5, 6, 9>>

\* C5 witnesses of the short ranges: lengths 0 and 1 return unchanged.
C5_WitnessEmpty == BubbleSortDone /\ input = <<>> /\ arr = <<>>

C5_WitnessSingle == BubbleSortDone /\ Len(input) = 1 /\ arr = input

\* C6: bubble_sort is stable: in every state of the sort, elements equivalent
\* under comp stand in their input order, so no step swaps two equivalent
\* elements with each other and the output keeps their input order.
C6_BubbleSortStable == (op = "bubble_sort") => StableOrder(arr, comp)

\* C6 witness: a finished bubble_sort that moved elements of an input with
\* two equivalent elements.
C6_Witness ==
  /\ BubbleSortDone
  /\ Len(input) >= 3
  /\ HasTie(input, comp)
  /\ arr # input
  /\ StableOrder(arr, comp)

\* C7 (as stated): sorting a range that is already ordered under comp, with
\* bubble_sort or merge_sort, leaves every position holding the element it
\* held before the call.
C7_ResortIsNoOp ==
  ((BubbleSortDone \/ MergeSortDone) /\ IsSortedElems(input, comp))
    => arr = input

\* C7, the half that holds: bubble_sort leaves an ordered range as it is.
C7_BubbleResortIsNoOp ==
  (BubbleSortDone /\ IsSortedElems(input, comp)) => arr = input

(***************************************************************************)
(* Claims about fibonacci.                                                 *)
(***************************************************************************)
\* The mathematical a + b of the value type t.
MathAdd(t, a, b) == IF t = "int" THEN a + b ELSE (2 * a) + (2 * b)

\* <<v[k], v[k+1]>> of the sequence v[0] = a, v[1] = b,
\* v[j] = v[j-1] + v[j-2] in the value type t.
RECURSIVE TermPair(_, _, _, _)
TermPair(t, k, a, b) ==
  IF k = 0 THEN <<a, b>>
  ELSE LET prev == TermPair(t, k - 1, a, b)
       IN  <<prev[2], MathAdd(t, prev[2], prev[1])>>

\* v[k], without computing v[k+1].
Term(t, k, a, b) == IF k = 0 THEN a ELSE TermPair(t, k - 1, a, b)[2]

\* The standard Fibonacci numbers F(0) .. F(10).
StdFib == <<0, 1, 1, 2, 3, 5, 8, 13, 21, 34, 55>>

FibDone == op = "fibonacci" /\ pc = "done"

\* C9: for n >= 0, fibonacci(n, v0, v1) returns the n-th term of v[0] = v0,
\* v[1] = v1, v[i] = v[i-1] + v[i-2] (every addition being defined in the
\* value type); with the seeds 0 and 1 of int these are 0,1,1,2,3,5,8,13,21,
\* 34,55 for n = 0..10; n = 0 and n = 1 return the seeds.
C9_FibReturnsTerm ==
  (FibDone /\ ~ub)
    => /\ n >= 0
       /\ result = <<Term(T, n, startValue, nextValue)>>
       /\ (n = 0) => result = <<startValue>>
       /\ (n = 1) => result = <<nextValue>>
       /\ (T = "int" /\ startValue = 0 /\ nextValue = 1 /\ n <= 10)
            => result = <<StdFib[n + 1]>>

\* C9 witness: fibonacci(10) = 55 with the default seeds.
C9_Witness ==
  /\ FibDone
  /\ T = "int" /\ n = 10 /\ startValue = 0 /\ nextValue = 1
  /\ result = <<55>>

\* C9 witness of the struct test: fibonacci<n>(5, n(1), n(2)) = 120.
C9_WitnessStruct ==
  /\ FibDone
  /\ T = "n" /\ n = 5 /\ startValue = 1 /\ nextValue = 2
  /\ result = <<120>>

\* C10: for n < 0 the call ends with the invalid-argument error, returns no
\* value and has performed no addition; no n >= 0 ends with this error.
C10_NegativeThrows ==
  /\ (op = "fibonacci" /\ n < 0 /\ pc # "fib_entry")
       => (pc = "thrown" /\ thrown = "invalid_argument" /\ result = <<>> /\ adds = 0)
  /\ (op = "fibonacci" /\ (thrown # "none" \/ pc = "thrown"))
       => (n < 0 /\ thrown = "invalid_argument" /\ pc = "thrown")
  /\ (op = "fibonacci" /\ n >= 0 /\ pc # "fib_entry")
       => (thrown = "none" /\ pc \in {"fib_loop", "done", "aborted"})

\* C10 witness: a call with a negative n that has thrown.
C10_Witness ==
  /\ op = "fibonacci" /\ n < 0
  /\ pc = "thrown" /\ thrown = "invalid_argument"
  /\ result = <<>> /\ adds = 0

(***************************************************************************)
(* Graph traversals: vocabulary of the properties.                         *)
(***************************************************************************)
\* The elements of a sequence.
Range(s) == {s[k] : k \in 1..Len(s)}

\* No element occurs twice in s.
NoDuplicates(s) == \A j, k \in 1..Len(s) : j # k => s[j] # s[k]

\* s is a prefix of t.
IsPrefix(s, t) == Len(s) <= Len(t) /\ s = SubSeq(t, 1, Len(s))

AllNodes(g) == 0..(Len(g) - 1)

\* The nodes reachable from a node of S by zero or more edges.
RECURSIVE ReachableFrom(_, _)
ReachableFrom(g, S) ==
  LET grown == S \cup {v \in AllNodes(g) : \E u \in S : v \in Range(g[u + 1])}
  IN  IF grown = S THEN S ELSE ReachableFrom(g, grown)

Reachable(g, s) == ReachableFrom(g, {s})

\* The nodes at most d edges away from a node of S.
RECURSIVE Within(_, _, _)
Within(g, S, d) ==
  IF d = 0 THEN S
  ELSE Within(g, S \cup {v \in AllNodes(g) : \E u \in S : v \in Range(g[u + 1])}, d - 1)

\* The hop distance from s to a node v reachable from s.
Distance(g, s, v) == CHOOSE d \in 0..Len(g) :
  /\ v \in Within(g, {s}, d)
  /\ \A e \in 0..(d - 1) : v \notin Within(g, {s}, e)

\* ord followed by the nodes of ns that are not yet in it, in the order of ns.
RECURSIVE AppendNew(_, _)
AppendNew(ord, ns) ==
  IF ns = <<>> THEN ord
  ELSE AppendNew(IF Head(ns) \in Range(ord) THEN ord ELSE Append(ord, Head(ns)),
                 Tail(ns))

\* Discovery order: the nodes of ord from position k on discover, one after
\* the other, their not yet discovered neighbours in neighbour-list order.
RECURSIVE Discovery(_, _, _)
Discovery(g, ord, k) ==
  IF k > Len(ord) THEN ord
  ELSE Discovery(g, AppendNew(ord, g[ord[k] + 1]), k + 1)

\* Breadth-first order from s, the nodes of seen being taken as discovered.
BreadthFirstFrom(g, seen, s) == Discovery(g, Append(seen, s), Len(seen) + 1)

BreadthFirstOrder(g, s) == BreadthFirstFrom(g, <<>>, s)

\* Depth-first preorder: u, then the preorders of its neighbours from left to
\* right, skipping what ord already holds.
RECURSIVE Preorder(_, _, _)
RECURSIVE PreorderAll(_, _, _)
Preorder(g, ord, u) ==
  IF u \in Range(ord) THEN ord ELSE PreorderAll(g, Append(ord, u), g[u + 1])

PreorderAll(g, ord, ns) ==
  IF ns = <<>> THEN ord
  ELSE PreorderAll(g, Preorder(g, ord, Head(ns)), Tail(ns))

DepthFirstOrder(g, s) == Preorder(g, <<>>, s)

\* The complete traversal over the nodes k, ..., stop - 1: every node not yet
\* in ord starts a traversal of what ord does not hold.
RECURSIVE CompleteOrder(_, _, _, _, _)
CompleteOrder(g, breadth, ord, k, stop) ==
  IF k >= stop THEN ord
  ELSE IF k \in Range(ord) THEN CompleteOrder(g, breadth, ord, k + 1, stop)
  ELSE CompleteOrder(g, breadth,
                     IF breadth THEN BreadthFirstFrom(g, ord, k)
                                ELSE Preorder(g, ord, k),
                     k + 1, stop)

\* The nodes among 0 .. k - 1 that no smaller node reaches.
ExpectedRoots(g, k) ==
  LET IsRoot(u) == u \notin ReachableFrom(g, 0..(u - 1))
  IN  SelectSeq([j \in 1..k |-> j - 1], IsRoot)

HasSelfLoop(g) == \E u \in AllNodes(g) : u \in Range(g[u + 1])

HasRepeatedEdge(g) == \E u \in AllNodes(g) : ~NoDuplicates(g[u + 1])

GraphDone == op \in GraphOps /\ pc = "done"

(***************************************************************************)
(* Graph traversals: claims.                                               *)
(***************************************************************************)
\* C11: a single-source traversal (bfs_iterative, dfs_iterative,
\* dfs_recursive) never gives the visitor a node twice and never a node that
\* is not reachable from start; a node it has given is in the visited set;
\* when it has returned, the nodes it gave are exactly the reachable ones.
C11_VisitsReachableOnce ==
  op \in SingleSourceOps =>
    /\ NoDuplicates(order)
    /\ Range(order) \subseteq visited
    /\ visited \subseteq Reachable(graph, start)
    /\ pc = "done" => Range(order) = Reachable(graph, start)

\* A finished iterative depth-first search of a graph with a self-loop and a
\* repeated edge, with a node start does not reach.
C11_Witness ==
  /\ op = "dfs_iterative" /\ pc = "done"
  /\ HasSelfLoop(graph) /\ HasRepeatedEdge(graph)
  /\ Len(order) >= 2
  /\ Len(order) < Len(graph)

C11_WitnessBfs ==
  /\ op = "bfs_iterative" /\ pc = "done"
  /\ HasSelfLoop(graph) /\ HasRepeatedEdge(graph)
  /\ Len(order) >= 2
  /\ Len(order) < Len(graph)

C11_WitnessRecursive ==
  /\ op = "dfs_recursive" /\ pc = "done"
  /\ HasSelfLoop(graph) /\ HasRepeatedEdge(graph)
  /\ Len(order) >= 2
  /\ Len(order) < Len(graph)

\* C12: bfs_complete and dfs_complete never give the visitor a node twice,
\* and when they have returned they have given it every node of
\* get_all_nodes().
C12_CompleteVisitsAllOnce ==
  op \in {"bfs_complete", "dfs_complete"} =>
    /\ NoDuplicates(order)
    /\ Range(order) \subseteq AllNodes(graph)
    /\ pc = "done" => Range(order) = AllNodes(graph)

\* A finished bfs_complete in which a node listed later had been reached from
\* an earlier root, and a later node was a root of its own.
C12_Witness ==
  /\ op = "bfs_complete" /\ pc = "done"
  /\ Len(roots) >= 2
  /\ Len(roots) < Len(graph)

C12_WitnessDfs ==
  /\ op = "dfs_complete" /\ pc = "done"
  /\ Len(roots) >= 2
  /\ Len(roots) < Len(graph)

\* C13: bfs_iterative gives the nodes in breadth-first order: the hop
\* distance from start never decreases along the sequence, the sequence is at
\* every moment a prefix of the discovery order, and the whole of it on
\* return; on the graph of the tests, from node 0, it is 0, 1, 2, 3, 4.
C13_BreadthFirstOrder ==
  op = "bfs_iterative" =>
    /\ \A k \in 1..(Len(order) - 1) :
         Distance(graph, start, order[k]) <= Distance(graph, start, order[k + 1])
    /\ IsPrefix(order, BreadthFirstOrder(graph, start))
    /\ pc = "done" => order = BreadthFirstOrder(graph, start)
    /\ (pc = "done" /\ graph = TestGraph /\ start = 0) => order = <<0, 1, 2, 3, 4>>

C13_Witness ==
  /\ op = "bfs_iterative" /\ pc = "done"
  /\ graph = TestGraph /\ start = 0
  /\ order = <<0, 1, 2, 3, 4>>

\* C14: dfs_iterative and dfs_recursive give the same sequence, the
\* depth-first preorder with the neighbours taken from left to right; on the
\* graph of the tests, from node 0, it is 0, 1, 3, 4, 2.
C14_IterativeEqualsRecursive ==
  op \in {"dfs_iterative", "dfs_recursive"} =>
    /\ IsPrefix(order, DepthFirstOrder(graph, start))
    /\ pc = "done" => order = DepthFirstOrder(graph, start)
    /\ (pc = "done" /\ graph = TestGraph /\ start = 0) => order = <<0, 1, 3, 4, 2>>

\* A finished dfs_iterative on 0->1, 0->2, 1->2: node 2 is pushed twice, and
\* its second copy is popped after it was visited.
C14_Witness ==
  /\ op = "dfs_iterative" /\ pc = "done"
  /\ graph = AddEdges(EmptyGraph(3), <<<<0, 1>>, <<0, 2>>, <<1, 2>>>>)
  /\ start = 0
  /\ order = <<0, 1, 2>>

C14_WitnessTest ==
  /\ op = "dfs_iterative" /\ pc = "done"
  /\ graph = TestGraph /\ start = 0
  /\ order = <<0, 1, 3, 4, 2>>

C14_WitnessRecursive ==
  /\ op = "dfs_recursive" /\ pc = "done"
  /\ graph = TestGraph /\ start = 0
  /\ order = <<0, 1, 3, 4, 2>>

\* C15: in bfs_complete and dfs_complete the roots are the nodes of
\* get_all_nodes(), in that order, that are not visited when the loop reaches
\* them; between two roots every visited node has been given to the visitor;
\* the sequence is the concatenation of the traversals from the roots, each
\* restricted to what was not yet visited; on the second graph of the tests
\* it is 0, 1, 2, 3, 4, 5.
C15_CompleteRootsInOrder ==
  op \in {"bfs_complete", "dfs_complete"} =>
    /\ IsPrefix(roots, ExpectedRoots(graph, Len(graph)))
    /\ IsPrefix(order, CompleteOrder(graph, op = "bfs_complete", <<>>, 0, Len(graph)))
    /\ pc = "complete_for" =>
         /\ visited = Range(order)
         /\ roots = ExpectedRoots(graph, root)
         /\ order = CompleteOrder(graph, op = "bfs_complete", <<>>, 0, root)
    /\ pc = "done" =>
         /\ roots = ExpectedRoots(graph, Len(graph))
         /\ order = CompleteOrder(graph, op = "bfs_complete", <<>>, 0, Len(graph))
         /\ graph = TestGraph2 => order = <<0, 1, 2, 3, 4, 5>>

\* A finished bfs_complete of the second graph of the tests: roots 0 and 3.
C15_Witness ==
  /\ op = "bfs_complete" /\ pc = "done"
  /\ graph = TestGraph2
  /\ roots = <<0, 3>>
  /\ order = <<0, 1, 2, 3, 4, 5>>

\* A finished dfs_complete whose second root reaches a node the first root
\* had already visited: 0->2, 1->2, 1->0 gives 0, 2 and then 1 alone.
C15_WitnessShared ==
  /\ op = "dfs_complete" /\ pc = "done"
  /\ graph = AddEdges(EmptyGraph(3), <<<<0, 2>>, <<1, 2>>, <<1, 0>>>>)
  /\ roots = <<0, 1>>
  /\ order = <<0, 2, 1>>

(***************************************************************************)
(* linear_search and linear_search_if: claims.                             *)
(***************************************************************************)
LinearDone == op \in {"linear_search", "linear_search_if"} /\ pc = "done"

\* The offsets of data whose element is equal to the value (linear_search) or
\* satisfies the predicate (linear_search_if).
Hits ==
  {p \in 0..(Len(data) - 1) :
     IF op = "linear_search" THEN data[p + 1] = value
     ELSE IF pred = "greater_than" THEN data[p + 1] > value
     ELSE data[p + 1] < value}

\* C16: linear_search returns the position of the first element equal to the
\* value, linear_search_if the position of the first element satisfying the
\* predicate (no earlier position matches), and both return last when no
\* element matches; the range may be unsorted or empty.
C16_LinearSearchFirstMatch ==
  LinearDone =>
    /\ Len(ret) = 1
    /\ IF Hits = {} THEN ret[1] = Len(data)
       ELSE ret[1] \in Hits /\ \A p \in Hits : ret[1] <= p

\* linear_search on an unsorted range with two matches, the first not at the
\* front.
C16_Witness ==
  /\ op = "linear_search" /\ pc = "done"
  /\ ~IsSortedBy(data, "less") /\ ~IsSortedBy(data, "greater")
  /\ Cardinality(Hits) >= 2
  /\ ret = <<1>>

C16_WitnessIf ==
  /\ op = "linear_search_if" /\ pc = "done"
  /\ ~IsSortedBy(data, "less") /\ ~IsSortedBy(data, "greater")
  /\ Cardinality(Hits) >= 2
  /\ ret = <<1>>

C16_WitnessAbsent ==
  /\ LinearDone /\ Len(data) >= 2 /\ Hits = {} /\ ret = <<Len(data)>>

C16_WitnessEmpty ==
  /\ LinearDone /\ data = <<>> /\ ret = <<0>>

C16_WitnessTest ==
  /\ op = "linear_search_if" /\ pc = "done"
  /\ data = LinearTestRange /\ value = 6 /\ ret = <<3>>

(***************************************************************************)
(* binary_search and equal_range on ranges in any order: claims.           *)
(***************************************************************************)
\* The interval the running loop works on, as <<low, high>>.
LoopInterval ==
  IF pc = "bs_loop" THEN <<first, last>>
  ELSE IF pc = "er_lower_loop" THEN <<lower, upper>>
  ELSE <<lower2, upper2>>

InSearchLoop ==
  /\ op \in {"binary_search", "equal_range"}
  /\ pc \in {"bs_loop", "er_lower_loop", "er_upper_loop"}

\* The interval of the running loop lies in the caller's range, and the
\* position the next iteration dereferences is one of its elements.
SearchStateSafe ==
  /\ InSearchLoop =>
       /\ 0 <= LoopInterval[1]
       /\ LoopInterval[1] <= LoopInterval[2]
       /\ LoopInterval[2] <= Len(data)
       /\ LoopInterval[1] < LoopInterval[2] =>
            Mid(LoopInterval[1], LoopInterval[2]) \in 0..(Len(data) - 1)
  /\ (op \in {"binary_search", "equal_range"} /\ pc = "done") =>
       \A k \in 1..Len(ret) : ret[k] \in 0..Len(data)

\* An iteration that stays in its loop leaves a strictly shorter interval.
SearchIterationShrinks ==
  (InSearchLoop /\ pc' = pc) =>
    LoopInterval'[2] - LoopInterval'[1] < LoopInterval[2] - LoopInterval[1]

\* C17: for every range in any order (the sortedness precondition may be
\* violated) and every value, binary_search and equal_range dereference only
\* positions of the caller's [first, last), return positions of the caller's
\* [first, last], shrink the interval on every iteration, and return.
C17_UnsortedIsSafe ==
  /\ []SearchStateSafe
  /\ [][SearchIterationShrinks]_vars
  /\ <>(pc = "done")

\* binary_search has returned on a range ordered under neither comparator
\* that holds the value, without finding it.
C17_Witness ==
  /\ op = "binary_search" /\ pc = "done"
  /\ ~IsSortedBy(data, "less") /\ ~IsSortedBy(data, "greater")
  /\ \E k \in 1..Len(data) : data[k] = value
  /\ ret = <<Len(data)>>

C17_WitnessEqualRange ==
  /\ op = "equal_range" /\ pc = "done"
  /\ ~IsSortedBy(data, "less") /\ ~IsSortedBy(data, "greater")
  /\ \E k \in 1..Len(data) : data[k] = value
  /\ ret[1] = ret[2]

(***************************************************************************)
(* bubble_sort, its passes: claims.                                        *)
(***************************************************************************)
\* bubble_sort has entered its do-while loop.
InBubbleLoop == op = "bubble_sort" /\ pc \in {"bubble_pass", "bubble_inner", "done"} /\ arr # <<>>

\* The positions from offset e on hold elements in order under c, none of
\* which goes before an element of a position in front of e.
Settled(s, c, e) ==
  /\ \A k \in (e + 1)..(Len(s) - 1) : ~CompElem(c, s[k + 1], s[k])
  /\ \A j \in 1..e : \A k \in (e + 1)..Len(s) : ~CompElem(c, s[k], s[j])

\* After pass number `passes` the scanned range has lost `passes` positions
\* and the positions behind it are settled; inside a pass the scan stays in
\* front of end.
PassStateInvariant ==
  InBubbleLoop =>
    /\ pc \in {"bubble_pass", "done"} =>
         /\ end = Len(arr) - passes
         /\ passes >= 1 => Settled(arr, comp, end)
    /\ pc = "bubble_inner" =>
         /\ end = Len(arr) - (passes - 1)
         /\ Settled(arr, comp, end)
         /\ current = next - 1
         /\ 0 <= current /\ next <= end

\* No step changes a position from end on.
SettledSuffixKept ==
  (op = "bubble_sort" /\ pc \in {"bubble_pass", "bubble_inner"}) =>
    /\ Len(arr') = Len(arr)
    /\ \A k \in (end + 1)..Len(arr) : arr'[k] = arr[k]

\* C18: pass invariant of bubble_sort: after the k-th pass the last k
\* positions hold the k greatest elements under comp in sorted order, the
\* next pass scans only the positions in front of them (one position fewer
\* per pass), and the last k positions are not modified again.
C18_PassInvariant ==
  /\ []PassStateInvariant
  /\ [][SettledSuffixKept]_vars

\* Two passes are over and a third is about to start on a prefix still out
\* of order.
C18_Witness ==
  /\ op = "bubble_sort" /\ pc = "bubble_pass"
  /\ passes = 2
  /\ end = Len(arr) - 2
  /\ ~IsSortedElems(SubSeq(arr, 1, end), comp)

\* A pass without a swap is the last: its end returns from bubble_sort.
StopsAfterSwaplessPass ==
  (op = "bubble_sort" /\ pc = "bubble_inner" /\ next = end /\ ~swapped) =>
    pc' = "done"

\* A pass after the first starts only after a pass that swapped; the passes
\* are at most n; an ordered input of length n >= 1 costs one pass, n - 1
\* comparisons and no swap.
PassCountInvariant ==
  op = "bubble_sort" =>
    /\ (pc = "bubble_pass" /\ passes >= 1) => swapped
    /\ passes <= Len(arr)
    /\ (pc = "done" /\ Len(input) >= 1 /\ IsSortedElems(input, comp)) =>
         /\ passes = 1
         /\ comparisons = Len(input) - 1
         /\ swaps = 0

\* C19: bubble_sort stops after the first pass in which no swap happened; on
\* an input of length n >= 1 already ordered under comp it makes exactly one
\* pass, n - 1 comparisons and no swap; on any input it makes at most n
\* passes.
C19_EarlyStop ==
  /\ []PassCountInvariant
  /\ [][StopsAfterSwaplessPass]_vars

\* bubble_sort has returned from an ordered input of length >= 3 with a tie.
C19_Witness ==
  /\ BubbleSortDone
  /\ Len(input) >= 3
  /\ IsSortedElems(input, comp)
  /\ HasTie(input, comp)
  /\ passes = 1 /\ comparisons = Len(input) - 1 /\ swaps = 0

\* bubble_sort has returned early from an unordered input: the last pass did
\* not swap and positions were left to scan.
C19_WitnessEarly ==
  /\ BubbleSortDone
  /\ ~IsSortedElems(input, comp)
  /\ ~swapped
  /\ end >= 2
  /\ passes >= 2

\* C20: every traversal entry point returns: from every state of a call of
\* bfs_iterative, bfs_complete, dfs_iterative, dfs_recursive or dfs_complete
\* the state in which it has returned is eventually reached, and then the
\* queue, the stack and the recursion are empty.
C20_TraversalTerminates ==
  /\ <>(pc = "done")
  /\ [](pc = "done" => queue = <<>> /\ dfs_stack = <<>> /\ calls = <<>>)

\* A traversal of a graph with a cycle through two nodes has returned.
C20_Witness ==
  /\ GraphDone
  /\ \E u, v \in AllNodes(graph) :
       /\ u # v
       /\ v \in Range(graph[u + 1])
       /\ u \in Range(graph[v + 1])
       /\ {u, v} \subseteq Range(order)

(***************************************************************************)
(* Breadth-first search, its frontier: claims.                             *)
(***************************************************************************)
BfsRunning == op \in {"bfs_iterative", "bfs_complete"}

\* The nodes enqueued so far, in the order of their enqueuing: a dequeued
\* node is given to the visitor at once (lines 42-44), so they are the nodes
\* the visitor received followed by the nodes still in the queue.
Enqueued == order \o queue

\* Every queued node is visited, the queue holds no node twice, no node was
\* enqueued twice, and the visited set is the set of the enqueued nodes.
FrontierStateInvariant ==
  BfsRunning =>
    /\ Range(queue) \subseteq visited
    /\ NoDuplicates(queue)
    /\ NoDuplicates(Enqueued)
    /\ visited = Range(Enqueued)

\* A step that enqueues a node enqueues one that was neither visited nor
\* enqueued before, and marks it visited in the same step.
EnqueueMarksVisited ==
  (BfsRunning /\ Len(queue') > Len(queue)) =>
    /\ Len(queue') = Len(queue) + 1
    /\ queue'[Len(queue')] \notin visited
    /\ queue'[Len(queue')] \notin Range(Enqueued)
    /\ visited' = visited \cup {queue'[Len(queue')]}

\* C21: frontier invariant of bfs_iterative and bfs_complete: every node in
\* the queue is in the visited set, no node occurs twice in the queue, no
\* node is enqueued more than once over the call, and a node is marked
\* visited in the step that enqueues it.
C21_FrontierInvariant ==
  /\ []FrontierStateInvariant
  /\ [][EnqueueMarksVisited]_vars

\* bfs_iterative has gone through the neighbours of a node of a graph with a
\* repeated edge: two nodes wait in the queue and more neighbours were
\* looked at than enqueued.
C21_Witness ==
  /\ op = "bfs_iterative" /\ pc = "bfs_for"
  /\ HasRepeatedEdge(graph)
  /\ nbr = Len(GetNeighbors(graph, node))
  /\ Len(queue) >= 2
  /\ nbr > Len(queue)

\* bfs_complete is in its second traversal with a node in the queue; the
\* visited set still holds the nodes of the first traversal.
C21_WitnessComplete ==
  /\ op = "bfs_complete" /\ pc = "bfs_for"
  /\ Len(roots) = 2
  /\ Len(order) >= 3
  /\ queue # <<>>

(***************************************************************************)
(* fibonacci with the default value type and seeds: claims.                *)
(***************************************************************************)
\* fibonacci(n): T = int, startValue = 0, nextValue = 1.
DefaultFibCall ==
  op = "fibonacci" /\ T = "int" /\ startValue = 0 /\ nextValue = 1 /\ n >= 0

\* C22 (as stated): for every n >= 0, fibonacci(n) with the value type int
\* (32 bits, signed) and the default seeds performs no addition v0 + v1 that
\* leaves the range of int, and returns the n-th Fibonacci number.
C22_DefaultIntNeverOverflows ==
  DefaultFibCall =>
    /\ ~ub
    /\ pc # "aborted"
    /\ pc = "fib_loop" /\ i <= n => ~Overflows(v0, v1)
    /\ pc = "done" => result = <<Term("int", n, 0, 1)>>

\* C22, the part that holds: up to n = 46 no addition overflows and the
\* value returned is the n-th Fibonacci number; F(46) = 1836311903.
C22_NoOverflowUpTo46 ==
  (DefaultFibCall /\ n <= 46) =>
    /\ ~ub
    /\ pc # "aborted"
    /\ pc = "done" => result = <<Term("int", n, 0, 1)>>
    /\ (pc = "done" /\ n = 46) => result = <<1836311903>>

\* fibonacci(47) has returned the wrapped sum 1134903170 + 1836311903.
C22_WitnessWrap ==
  /\ FibDone /\ DefaultFibCall /\ n = 47
  /\ ub
  /\ result = <<0 - 1323752223>>

\* fibonacci(47) was stopped at the overflowing addition (a trapping build).
C22_WitnessTrap ==
  /\ DefaultFibCall /\ n = 47
  /\ pc = "aborted"
  /\ v0 = 1134903170 /\ v1 = 1836311903

=============================================================================
